---- MODULE Spec2Model ----
(***************************************************************************)
(* Model of analysis_scripts/process_fep_benchmark.py: main() as a         *)
(* sequential procedure over a directory tree, the command line and the    *)
(* value the external parser (analysis_functions) returns.                 *)
(*                                                                         *)
(* A file name is a tuple of one-character strings, a path is a tuple of   *)
(* names (its components).  glob and fnmatch are modelled as the Python    *)
(* library computes them: '*', '?' and '[...]' are pattern characters and  *)
(* names with a leading dot are only matched by patterns with a leading    *)
(* dot.  Character ranges ('-') are not modelled: no name of the model     *)
(* holds a '-'.                                                            *)
(***************************************************************************)
EXTENDS Integers, Sequences, FiniteSets, Bags, TLC

VARIABLES tree, ext, latex_tables, parsed, files, results,
          throm_name_waterset_ind, throm_name_jacsset_ind,
          todo, trace, exc, pc

vars == <<tree, ext, latex_tables, parsed, files, results,
          throm_name_waterset_ind, throm_name_jacsset_ind,
          todo, trace, exc, pc>>

\* ---------------------------------------------------------------- bounds
MaxGroups == 2
MaxFiles == 2
MaxEntries == 3
MaxCount == 2

\* ------------------------------------------------------- values and names
\* no exception raised
None == "None"
\* args.ext when -e/--ext is not given (Python None)
NoExt == <<"None">>
\* a local variable no statement has assigned yet (sequences are indexed from 1)
Unbound == 0
\* results before the parser returns
Unset == <<>>

fmp == <<"f", "m", "p">>
csv == <<"c", "s", "v">>

upper_dir == <<"u">>

throm_name_waterset == "throm_nozob_hip75_sbmcorr_out"
throm_name_jacsset == "thrombin_core_out"
other_name == "tyk2_out"

\* names used to populate the directory tree
n_g == <<"g">>
n_k == <<"k">>
n_brg == <<"[", "g", "]">>
n_hid == <<".", "h">>
n_tfmp == <<"t", ".", "f", "m", "p">>
n_afmp == <<"a", ".", "f", "m", "p">>
n_hfmp == <<".", "b", ".", "f", "m", "p">>
n_ccsv == <<"c", ".", "c", "s", "v">>
n_fmp == <<"f", "m", "p">>
n_txt == <<"a", ".", "t", "x", "t">>

\* ------------------------------------------------------------- fnmatch
Magic == {"*", "?", "["}

\* glob.has_magic on one path component
HasMagic(name) == \E i \in 1..Len(name) : name[i] \in Magic

\* variant: glob matching dot files like any other name
IsHiddenNever(name) == FALSE

\* glob._ishidden
IsHidden(name) == name # <<>> /\ name[1] = "."

\* fnmatch.translate: index of the ']' that closes the class opened at pat[1],
\* 0 when there is none (the '[' is then a literal character)
ClassEnd(pat) ==
    LET n == Len(pat)
        j1 == IF 2 <= n /\ pat[2] = "!" THEN 3 ELSE 2
        j2 == IF j1 <= n /\ pat[j1] = "]" THEN j1 + 1 ELSE j1
        closers == {j \in j2..n : pat[j] = "]"}
    IN  IF closers = {} THEN 0
        ELSE CHOOSE j \in closers : \A k \in closers : j <= k

RECURSIVE FnMatch(_, _)
\* fnmatch.fnmatchcase(name, pat)
FnMatch(pat, name) ==
    IF pat = <<>> THEN name = <<>>
    ELSE IF Head(pat) = "*"
         THEN FnMatch(Tail(pat), name)
              \/ (name # <<>> /\ FnMatch(pat, Tail(name)))
    ELSE IF Head(pat) = "?"
         THEN name # <<>> /\ FnMatch(Tail(pat), Tail(name))
    ELSE IF Head(pat) = "[" /\ ClassEnd(pat) # 0
         THEN LET j == ClassEnd(pat)
                  stuff == SubSeq(pat, 2, j - 1)
                  neg == stuff[1] = "!"
                  body == IF neg THEN Tail(stuff) ELSE stuff
                  chars == {body[i] : i \in 1..Len(body)}
              IN  /\ name # <<>>
                  /\ (Head(name) \in chars) # neg
                  /\ FnMatch(SubSeq(pat, j + 1, Len(pat)), Tail(name))
    ELSE name # <<>> /\ Head(name) = Head(pat) /\ FnMatch(Tail(pat), Tail(name))

\* ---------------------------------------------------------- file system
Front(p) == SubSeq(p, 1, Len(p) - 1)
Last(p) == p[Len(p)]

\* os.path.lexists / os.path.isdir
Exists(t, p) == p \in DOMAIN t
IsDir(t, p) == p \in DOMAIN t /\ t[p] = "dir"

\* glob._listdir: the names in directory d (none if d is not a directory)
ListDir(t, d, dironly) ==
    IF ~IsDir(t, d) THEN {}
    ELSE {Last(p) : p \in {q \in DOMAIN t : Len(q) = Len(d) + 1 /\ Front(q) = d
                                           /\ (dironly => t[q] = "dir")}}

\* glob._glob1
Glob1(t, d, pattern, dironly) ==
    {n \in ListDir(t, d, dironly) :
        /\ (~IsHidden(pattern) => ~IsHidden(n))
        /\ FnMatch(pattern, n)}

\* glob._glob0
Glob0(t, d, basename) ==
    IF Exists(t, Append(d, basename)) THEN {basename} ELSE {}

RECURSIVE Glob(_, _, _)
\* glob.glob(pathname), pathname given by its components
Glob(t, pathname, dironly) ==
    IF \A i \in 1..Len(pathname) : ~HasMagic(pathname[i])
    THEN IF Exists(t, pathname) THEN {pathname} ELSE {}
    ELSE LET dirname == Front(pathname)
             basename == Last(pathname)
             dirs == IF \E i \in 1..Len(dirname) : HasMagic(dirname[i])
                     THEN Glob(t, dirname, TRUE)
                     ELSE {dirname}
         IN  UNION {{Append(d, n) :
                        n \in IF HasMagic(basename)
                              THEN Glob1(t, d, basename, dironly)
                              ELSE Glob0(t, d, basename)} : d \in dirs}

\* f'{args.ext}': str(None) is 'None'
ExtText(e) == IF e = NoExt THEN <<"N", "o", "n", "e">> ELSE e

\* f'{args.upper_dir}/*'
UpperPattern == <<upper_dir, <<"*">>>>
\* f'{entry}/*{args.ext}'
EntryPattern(entry, e) == Append(entry, <<"*">> \o ExtText(e))

\* ------------------------------------------------ directory trees (inputs)
Dir(n) == [name |-> n, kind |-> "dir"]
File(n) == [name |-> n, kind |-> "file"]

\* entries that may sit directly in upper_dir, and inside one of its groups
TopRich == {Dir(n_g), Dir(n_brg), Dir(n_hid), File(n_tfmp)}
FileRich == {File(n_afmp), File(n_hfmp), File(n_ccsv), Dir(n_fmp), File(n_txt)}
TopPlain == {Dir(n_g), Dir(n_k), File(n_tfmp)}
FilePlain == {File(n_afmp), File(n_ccsv)}
\* what a directory nested inside a group holds
DeepEntries == {File(n_afmp), File(n_ccsv)}

SubsetsUpTo(U, k) == {S \in SUBSET U : Cardinality(S) <= k}
DirNames(S) == {e.name : e \in {x \in S : x.kind = "dir"}}

\* the tree with `top` directly in upper_dir and content[g] inside group g
MkTree(top, content) ==
    LET root == {<<<<>>, "dir">>, <<<<upper_dir>>, "dir">>}
        l1 == {<<<<upper_dir, e.name>>, e.kind>> : e \in top}
        l2 == UNION {{<<<<upper_dir, g, f.name>>, f.kind>> : f \in content[g]} :
                        g \in DirNames(top)}
        l3 == UNION {UNION {{<<<<upper_dir, g, s, d.name>>, d.kind>> : d \in DeepEntries} :
                                s \in DirNames(content[g])} : g \in DirNames(top)}
        pairs == root \cup l1 \cup l2 \cup l3
    IN  [p \in {x[1] : x \in pairs} |-> (CHOOSE x \in pairs : x[1] = p)[2]]

Trees(topU, fileU) ==
    UNION {{MkTree(top, content) :
                content \in [DirNames(top) -> SubsetsUpTo(fileU, MaxFiles)]} :
                    top \in SubsetsUpTo(topU, MaxGroups)}

\* ------------------------------------- what the external parser returns
EntryNames == {throm_name_waterset, throm_name_jacsset, other_name}

MkResults(e, c) ==
    ("entries" :> e) @@ ("number of compounds" :> c)
        @@ ("number of edges" :> [i \in 1..Len(e) |-> i])

ParsedAll ==
    UNION {{MkResults(e, c) : e \in [1..n -> EntryNames], c \in [1..n -> 1..MaxCount]} :
                n \in 0..MaxEntries}

ParsedFew ==
    {MkResults(<<throm_name_jacsset, throm_name_waterset>>, <<1, 2>>),
     MkResults(<<throm_name_waterset>>, <<1>>),
     MkResults(<<other_name>>, <<1>>)}

Exts == {fmp, csv, NoExt}

\* ------------------------------------------------------------------ Init
InitWith(trees, parsedSet) ==
    /\ tree \in trees
    /\ ext \in Exts
    /\ latex_tables \in BOOLEAN
    /\ parsed \in parsedSet
    /\ files = EmptyBag
    /\ results = Unset
    /\ throm_name_waterset_ind = Unbound
    /\ throm_name_jacsset_ind = Unbound
    /\ todo = {}
    /\ trace = <<>>
    /\ exc = None
    /\ pc = "collect"

Init == InitWith(Trees(TopPlain, FilePlain), ParsedAll)
InitCollect == InitWith(Trees(TopRich, FileRich), ParsedFew)

\* --------------------------------------------------------------- helpers
Call(op, arg) == [op |-> op, arg |-> arg]
Stdout(text) == [op |-> "print", arg |-> text]

\* the entries of glob(upper_dir/*) that os.path.isdir accepts
GroupDirs(t) == {e \in Glob(t, UpperPattern, FALSE) : IsDir(t, e)}

\* lines 72-75: files.extend(glob(entry/*ext)) over the group directories
CollectFiles(t, e) ==
    LET found(g) == Glob(t, EntryPattern(g, e), FALSE)
        all == UNION {found(g) : g \in GroupDirs(t)}
    IN  [p \in all |-> Cardinality({g \in GroupDirs(t) : p \in found(g)})]

\* lines 88-92: the index the enumerate loop leaves in the variable
LoopIndex(entries, name) ==
    LET hits == {i \in 1..Len(entries) : entries[i] = name}
    IN  IF hits = {} THEN Unbound
        ELSE CHOOSE i \in hits : \A k \in hits : k <= i

\* variant: the overlap added instead of subtracted
SubtractAdding(res, w, j) ==
    [res EXCEPT !["number of compounds"][w] = @ + res["number of compounds"][j]]

\* variant: the overlap taken off the JACS-set entry
SubtractFromJacs(res, w, j) ==
    [res EXCEPT !["number of compounds"][j] = @ - res["number of compounds"][w]]

\* line 95
Subtract(res, w, j) ==
    [res EXCEPT !["number of compounds"][w] = @ - res["number of compounds"][j]]

\* --------------------------------------------------------------- actions
\* lines 72-75
Collect ==
    /\ pc = "collect"
    /\ files' = CollectFiles(tree, ext)
    /\ pc' = "parse"
    /\ UNCHANGED <<tree, ext, latex_tables, parsed, results,
                   throm_name_waterset_ind, throm_name_jacsset_ind, todo, trace, exc>>

\* lines 78-79
ParseFmp ==
    /\ pc = "parse"
    /\ ext = fmp
    /\ trace' = Append(trace, Call("parse_fep_data", files))
    /\ results' = parsed
    /\ pc' = "correct"
    /\ UNCHANGED <<tree, ext, latex_tables, parsed, files,
                   throm_name_waterset_ind, throm_name_jacsset_ind, todo, exc>>

\* variant: the csv branch calling the fmp parser
ParseCsvWithFmpParser ==
    /\ pc = "parse"
    /\ ext # fmp
    /\ ext = csv
    /\ trace' = Append(trace, Call("parse_fep_data", files))
    /\ results' = parsed
    /\ pc' = "correct"
    /\ UNCHANGED <<tree, ext, latex_tables, parsed, files,
                   throm_name_waterset_ind, throm_name_jacsset_ind, todo, exc>>

\* lines 80-81
ParseCsv ==
    /\ pc = "parse"
    /\ ext # fmp
    /\ ext = csv
    /\ trace' = Append(trace, Call("parse_fep_data_from_csv", files))
    /\ results' = parsed
    /\ pc' = "correct"
    /\ UNCHANGED <<tree, ext, latex_tables, parsed, files,
                   throm_name_waterset_ind, throm_name_jacsset_ind, todo, exc>>

\* variant: a plain else branch that parses csv
RaiseExtParsingCsv ==
    /\ pc = "parse"
    /\ ext # fmp
    /\ ext # csv
    /\ trace' = Append(trace, Call("parse_fep_data_from_csv", files))
    /\ results' = parsed
    /\ pc' = "correct"
    /\ UNCHANGED <<tree, ext, latex_tables, parsed, files,
                   throm_name_waterset_ind, throm_name_jacsset_ind, todo, exc>>

\* lines 82-83
RaiseExt ==
    /\ pc = "parse"
    /\ ext # fmp
    /\ ext # csv
    /\ exc' = "Only fmp and csv are accessible file extenstions"
    /\ pc' = "error"
    /\ UNCHANGED <<tree, ext, latex_tables, parsed, files, results,
                   throm_name_waterset_ind, throm_name_jacsset_ind, todo, trace>>

\* lines 86-95, both names found by the loop
Correct ==
    /\ pc = "correct"
    /\ LET w == LoopIndex(results["entries"], throm_name_waterset)
           j == LoopIndex(results["entries"], throm_name_jacsset)
       IN  /\ w # Unbound
           /\ j # Unbound
           /\ throm_name_waterset_ind' = w
           /\ throm_name_jacsset_ind' = j
           \* line 94: an index is never None
           /\ results' = Subtract(results, w, j)
    /\ pc' = "summary"
    /\ UNCHANGED <<tree, ext, latex_tables, parsed, files, todo, trace, exc>>

\* lines 86-94, a name the loop never met: reading its index variable at
\* line 94 raises UnboundLocalError
CorrectRaise ==
    /\ pc = "correct"
    /\ LET w == LoopIndex(results["entries"], throm_name_waterset)
           j == LoopIndex(results["entries"], throm_name_jacsset)
       IN  /\ w = Unbound \/ j = Unbound
           /\ throm_name_waterset_ind' = w
           /\ throm_name_jacsset_ind' = j
    /\ exc' = "UnboundLocalError"
    /\ pc' = "error"
    /\ UNCHANGED <<tree, ext, latex_tables, parsed, files, results, todo, trace>>

\* variant: the summary printed before the correction
SummarizeBeforeCorrect ==
    /\ pc = "correct"
    /\ trace' = trace \o <<Stdout("FEP+ benchmark summary"),
                           Stdout("-----------------------"),
                           Call("summarize_fep_error", results),
                           Stdout("")>>
    /\ pc' = "latex"
    /\ UNCHANGED <<tree, ext, latex_tables, parsed, files, results,
                   throm_name_waterset_ind, throm_name_jacsset_ind, todo, exc>>

\* lines 97-100
Summarize ==
    /\ pc = "summary"
    /\ trace' = trace \o <<Stdout("FEP+ benchmark summary"),
                           Stdout("-----------------------"),
                           Call("summarize_fep_error", results),
                           Stdout("")>>
    /\ pc' = "latex"
    /\ UNCHANGED <<tree, ext, latex_tables, parsed, files, results,
                   throm_name_waterset_ind, throm_name_jacsset_ind, todo, exc>>

\* lines 102-107: the header, and the glob the for loop iterates over
LatexHeader ==
    /\ pc = "latex"
    /\ latex_tables /\ ext = fmp
    /\ trace' = trace \o <<Stdout("Individual set summaries"),
                           Stdout("------------------------")>>
    /\ todo' = Glob(tree, UpperPattern, FALSE)
    /\ pc' = IF todo' = {} THEN "done" ELSE "tables"
    /\ UNCHANGED <<tree, ext, latex_tables, parsed, files, results,
                   throm_name_waterset_ind, throm_name_jacsset_ind, exc>>

\* lines 107-114: one iteration of the loop (glob yields in directory order,
\* which the file system decides)
TableStep ==
    /\ pc = "tables"
    /\ \E entry \in todo :
        /\ todo' = todo \ {entry}
        /\ IF IsDir(tree, entry)
           THEN /\ files' = SetToBag(Glob(tree, EntryPattern(entry, ext), FALSE))
                /\ trace' = IF BagCardinality(files') >= 1
                            THEN trace \o <<Call("print_path", entry),
                                            Call("print_latex_table", files'),
                                            Stdout(""), Stdout("")>>
                            ELSE trace
           ELSE UNCHANGED <<files, trace>>
    /\ pc' = IF todo' = {} THEN "done" ELSE "tables"
    /\ UNCHANGED <<tree, ext, latex_tables, parsed, results,
                   throm_name_waterset_ind, throm_name_jacsset_ind, exc>>

\* lines 115-116
LatexNotice ==
    /\ pc = "latex"
    /\ ~(latex_tables /\ ext = fmp)
    /\ latex_tables /\ ext # fmp
    /\ trace' = Append(trace,
            Stdout("Latex summary tables can only printed for FMP results files."))
    /\ pc' = "done"
    /\ UNCHANGED <<tree, ext, latex_tables, parsed, files, results,
                   throm_name_waterset_ind, throm_name_jacsset_ind, todo, exc>>

\* lines 102, 115: neither branch taken
NoLatex ==
    /\ pc = "latex"
    /\ ~(latex_tables /\ ext = fmp)
    /\ ~(latex_tables /\ ext # fmp)
    /\ pc' = "done"
    /\ UNCHANGED <<tree, ext, latex_tables, parsed, files, results,
                   throm_name_waterset_ind, throm_name_jacsset_ind, todo, trace, exc>>

Next ==
    \/ Collect
    \/ ParseFmp
    \/ ParseCsv
    \/ RaiseExt
    \/ Correct
    \/ CorrectRaise
    \/ Summarize
    \/ LatexHeader
    \/ TableStep
    \/ LatexNotice
    \/ NoLatex

Spec == Init /\ [][Next]_vars
SpecCollect == InitCollect /\ [][Next]_vars

\* ------------------------------------------------------------ properties
Terminated == pc \in {"done", "error"}
Parsers == {"parse_fep_data", "parse_fep_data_from_csv"}
Events(ops) == {i \in 1..Len(trace) : trace[i].op \in ops}
Printed(text) == \E i \in Events({"print"}) : trace[i].arg = text
Has(entries, name) == \E i \in 1..Len(entries) : entries[i] = name
BothPresent == Has(parsed["entries"], throm_name_waterset)
               /\ Has(parsed["entries"], throm_name_jacsset)
\* the entry a name denotes: the last one the parser gave that name
IndexOf(name) ==
    CHOOSE i \in 1..Len(parsed["entries"]) :
        /\ parsed["entries"][i] = name
        /\ \A k \in (i + 1)..Len(parsed["entries"]) : parsed["entries"][k] # name

EndsWith(name, e) ==
    Len(name) >= Len(e) /\ SubSeq(name, Len(name) - Len(e) + 1, Len(name)) = e

LeadingDot(name) == Len(name) >= 1 /\ name[1] = "."

\* entries directly inside an immediate subdirectory of upper_dir, named *ext
DirectMatches ==
    {p \in DOMAIN tree : /\ Len(p) = 3
                         /\ p[1] = upper_dir
                         /\ IsDir(tree, Front(p))
                         /\ EndsWith(p[3], ext)}

\* no immediate subdirectory of upper_dir has a glob metacharacter in its name
PlainGroups ==
    \A p \in DOMAIN tree : (Len(p) = 2 /\ tree[p] = "dir") => ~HasMagic(p[2])

\* C1 (as stated): the file list handed to the parser is exactly the set of
\* entries directly inside an immediate subdirectory of upper_dir whose name
\* ends with ext.
C1_ExactlyDirectMatches ==
    \A i \in Events(Parsers) : BagToSet(trace[i].arg) = DirectMatches

\* C1 (amended): when no immediate subdirectory of upper_dir has a glob
\* metacharacter in its name, the file list handed to the parser holds, once
\* each, exactly the entries directly inside an immediate subdirectory of
\* upper_dir whose name ends with ext, where neither the entry's name nor the
\* subdirectory's name starts with a dot; entries directly in upper_dir and
\* entries nested deeper are never in it.
C1_ExactlyVisibleDirectMatches ==
    PlainGroups =>
        \A i \in Events(Parsers) :
            trace[i].arg = SetToBag({p \in DirectMatches :
                                        ~LeadingDot(p[2]) /\ ~LeadingDot(p[3])})

\* a parser got a non-empty list from a tree that also holds a matching hidden
\* file, a matching file directly in upper_dir and a matching nested file
C1_Witness ==
    /\ PlainGroups
    /\ \E i \in Events(Parsers) : trace[i].arg # EmptyBag
    /\ ext = fmp
    /\ \E p \in DirectMatches : LeadingDot(p[3])
    /\ <<upper_dir, n_tfmp>> \in DOMAIN tree
    /\ \E p \in DOMAIN tree : Len(p) = 4 /\ EndsWith(p[4], ext)

\* C2: when the parsed entries hold both thrombin names, the results passed to
\* summarize_fep_error have, for the water-set entry, the parsed number of
\* compounds minus the parsed number of compounds of the JACS-set entry.
C2_WatersetCountCorrected ==
    \A i \in Events({"summarize_fep_error"}) :
        BothPresent =>
            trace[i].arg["number of compounds"][IndexOf(throm_name_waterset)]
                = parsed["number of compounds"][IndexOf(throm_name_waterset)]
                  - parsed["number of compounds"][IndexOf(throm_name_jacsset)]

C2_Witness ==
    /\ BothPresent
    /\ \E i \in Events({"summarize_fep_error"}) :
        /\ parsed["number of compounds"][IndexOf(throm_name_waterset)] = 1
        /\ parsed["number of compounds"][IndexOf(throm_name_jacsset)] = 2
        /\ trace[i].arg["number of compounds"][IndexOf(throm_name_waterset)] = -1

\* C3: print_latex_table is called and the 'Individual set summaries' header is
\* printed only in runs with --latex_tables and ext fmp; a run with
\* --latex_tables and ext csv prints no table and prints the notice instead;
\* a run without --latex_tables prints neither.
C3_LatexTablesOnlyForFmp ==
    LET tables == Events({"print_latex_table"}) # {}
                  \/ Printed("Individual set summaries")
        notice == Printed("Latex summary tables can only printed for FMP results files.")
    IN  /\ tables => (latex_tables /\ ext = fmp)
        /\ (Terminated /\ latex_tables /\ ext = csv) => (~tables /\ notice)
        /\ ~latex_tables => (~tables /\ ~notice)

\* C4: a successful run calls exactly one parser, once, with the collected
\* file list: parse_fep_data for ext fmp, parse_fep_data_from_csv for ext csv,
\* and the other parser is never called.
C4_OneParserByExt ==
    /\ ext = fmp => Events({"parse_fep_data_from_csv"}) = {}
    /\ ext = csv => Events({"parse_fep_data"}) = {}
    /\ pc = "done" =>
        /\ Cardinality(Events(Parsers)) = 1
        /\ \A i \in Events(Parsers) :
            /\ trace[i].op = (IF ext = fmp THEN "parse_fep_data"
                              ELSE "parse_fep_data_from_csv")
            /\ trace[i].arg = CollectFiles(tree, ext)
        /\ ext \in {fmp, csv}

C4_Witness ==
    /\ pc = "done"
    /\ ext = csv
    /\ \E i \in Events({"parse_fep_data_from_csv"}) : trace[i].arg # EmptyBag

\* C5: the steps come in a fixed order: collection, the parser call, the
\* thrombin correction, the summary header and summarize_fep_error, then the
\* latex tables; summarize_fep_error never gets uncorrected results and no
\* table is printed before the overall summary.
C5_FixedOrder ==
    /\ \A i \in Events(Parsers) : i = 1 /\ pc \notin {"collect", "parse"}
    /\ \A s \in Events({"summarize_fep_error"}) :
        /\ Events(Parsers) # {}
        /\ s = 4
        /\ trace[s - 2] = Stdout("FEP+ benchmark summary")
        /\ throm_name_waterset_ind # Unbound /\ throm_name_jacsset_ind # Unbound
        /\ trace[s].arg # parsed
        /\ pc \notin {"collect", "parse", "correct", "summary"}
    /\ \A t \in Events({"print_latex_table", "print_path"}) \cup
                {i \in Events({"print"}) : trace[i].arg = "Individual set summaries"} :
        \E s \in Events({"summarize_fep_error"}) : s < t

C5_Witness ==
    /\ pc = "done"
    /\ Events({"print_latex_table"}) # {}
    /\ Events({"summarize_fep_error"}) # {}

\* C6: when one or both thrombin names are absent from the parsed entries the
\* correction is skipped: every number of compounds is left as parsed, no
\* error is raised and the run goes on to print the summary.
C6_SkippedWhenAbsent ==
    (Terminated /\ ext \in {fmp, csv} /\ ~BothPresent) =>
        /\ exc = None
        /\ results = parsed
        /\ Events({"summarize_fep_error"}) # {}

\* C7: the correction changes one value only: the number of compounds of every
\* entry not named as the water set (the JACS-set entry included), the entries
\* list and every other key of results are as the parser returned them.
C7_CorrectionFrame ==
    pc \in {"summary", "latex", "tables", "done"} =>
        /\ DOMAIN results = DOMAIN parsed
        /\ \A k \in DOMAIN parsed \ {"number of compounds"} : results[k] = parsed[k]
        /\ DOMAIN results["number of compounds"] = DOMAIN parsed["number of compounds"]
        /\ \A i \in 1..Len(parsed["entries"]) :
            parsed["entries"][i] # throm_name_waterset =>
                results["number of compounds"][i] = parsed["number of compounds"][i]
        /\ \A s \in Events({"summarize_fep_error"}) : trace[s].arg = results

C7_Witness ==
    /\ pc = "summary"
    /\ results # parsed
    /\ Len(parsed["entries"]) = 3
    /\ Has(parsed["entries"], other_name)

\* C8: without -e/--ext the run ends in the 'Only "fmp" and "csv" are
\* accessible file extenstions' error: no parser is called, no count is
\* corrected and nothing is printed.
C8_NoExtRaises ==
    ext = NoExt =>
        /\ trace = <<>>
        /\ results = Unset
        /\ pc # "done"
        /\ pc = "error" => exc = "Only fmp and csv are accessible file extenstions"
        /\ pc \in {"collect", "parse", "error"}

C8_Witness ==
    /\ ext = NoExt
    /\ pc = "error"
    /\ latex_tables
====
